---------------------------- MODULE Spec2Model ----------------------------
(* The SnakeGame component of src/src/App.tsx as a state machine.          *)
(*                                                                         *)
(* The component keeps five pieces of React state (snake, direction, food, *)
(* score, gameOver).  Two callbacks change them: the interval callback,    *)
(* which calls moveSnake, and the keydown listener handleKeyDown, which    *)
(* calls setDirection or initGame.  A callback runs to completion, React   *)
(* commits its batched updates and re-creates both callbacks over the new  *)
(* state before the next one runs, so each callback is one atomic action   *)
(* reading the committed state.                                            *)
(*                                                                         *)
(* Spec      the callbacks in any order, time left aside.                  *)
(* TimedSpec the same callbacks with the 200 ms interval on a clock.       *)
(* SpawnSpec the loop of spawnFood on its own, iteration by iteration, on  *)
(*           small grids that a snake can fill.                            *)
EXTENDS Integers, Sequences, FiniteSets

(* ---- program constants (component props and their defaults) ---- *)
width == 400
height == 400
gridSize == 20

columns == width \div gridSize
rows == height \div gridSize

\* setInterval(..., 200)
delay == 200

(* ---- bounds of the exploration ---- *)
\* moves of the snake explored after a (re)start
MaxTicks == 10
\* accepted direction changes explored after a (re)start
MaxTurns == 3
\* Math.random() is explored for the cells at most this many steps from the new head
FoodRadius == 1
\* moves of the snake explored with the clock
MaxTimedTicks == 3
\* spawnFood's loop is run on its own on grids of at most this many columns and rows
MaxSide == 2
\* time advances in halves of the interval's delay
Quantum == delay \div 2
\* the time since the latest tick is followed up to twice the delay
MaxWait == 2 * delay

Directions == {"UP", "DOWN", "LEFT", "RIGHT"}
\* KeyboardEvent.key: the four arrows, Enter, and one key that is neither
Keys == {"ArrowUp", "ArrowDown", "ArrowLeft", "ArrowRight", "Enter", "a"}

Coordinate(x, y) == [x |-> x, y |-> y]

VARIABLES
    snake,      \* Coordinate[], head first
    direction,  \* Direction
    food,       \* Coordinate
    score,      \* number
    gameOver,   \* boolean
    lastMove,   \* direction of the latest move of the snake, "NONE" after a (re)start
    last,       \* the latest callback: which one, its key, gameOver when it started
    ticks,      \* moves since the (re)start
    turns,      \* accepted direction changes since the (re)start
    accepted,   \* argument of the latest setDirection call since the latest move, or "NONE"
    delivered,  \* the states the latest callback made onGameStateUpdate see, in order
    clock,      \* time since the interval was set or fired, and since the latest tick
    loop        \* a run of spawnFood's loop on its own: its inputs, position and newFood

vars == <<snake, direction, food, score, gameOver, lastMove, last, ticks, turns,
          accepted, delivered, clock, loop>>
game == <<snake, direction, food, score, gameOver>>

\* the object handed to onGameStateUpdate
GameState(sn, fd, d, sc, over) ==
    [snake |-> sn, food |-> fd, direction |-> d, score |-> sc, gameOver |-> over]

Max(a, b) == IF a >= b THEN a ELSE b
Min(a, b) == IF a <= b THEN a ELSE b

initialSnake == <<Coordinate(8, 10), Coordinate(7, 10), Coordinate(6, 10)>>
initialFood == Coordinate(13, 10)

(* ---- moveSnake's pieces ---- *)

\* newHeadOf with the y axis upside down
newHeadOfFlipped(head, d) ==
    CASE d = "UP" -> Coordinate(head.x, head.y + 1)
      [] d = "DOWN" -> Coordinate(head.x, head.y - 1)
      [] d = "LEFT" -> Coordinate(head.x - 1, head.y)
      [] d = "RIGHT" -> Coordinate(head.x + 1, head.y)
      [] OTHER -> head

\* switch (direction): the head offset by one cell
newHeadOf(head, d) ==
    CASE d = "UP" -> Coordinate(head.x, head.y - 1)
      [] d = "DOWN" -> Coordinate(head.x, head.y + 1)
      [] d = "LEFT" -> Coordinate(head.x - 1, head.y)
      [] d = "RIGHT" -> Coordinate(head.x + 1, head.y)
      [] OTHER -> head

\* Array.prototype.pop
pop(s) == SubSeq(s, 1, Len(s) - 1)

\* newSnakeOf popping the tail on the food too
newSnakeOfAlwaysPop(newHead, sn, fd) ==
    pop(<<newHead>> \o sn)

\* newSnake: unshift(newHead), then pop() unless the head is on the food
newSnakeOf(newHead, sn, fd) ==
    IF newHead = fd THEN <<newHead>> \o sn ELSE pop(<<newHead>> \o sn)

\* newScoreOf counting every move
newScoreOfEveryMove(newHead, fd, sc) ==
    sc + 1

\* setScore(prev => prev + 1) when the head is on the food
newScoreOf(newHead, fd, sc) ==
    IF newHead = fd THEN sc + 1 ELSE sc

\* snakePositions.some(segment => segment.x === c.x && segment.y === c.y)
onSnake(c, snakePositions) ==
    \E i \in 1..Len(snakePositions) : snakePositions[i] = c

\* the cells Math.floor(Math.random() * columns), ... is explored for: those
\* at most FoodRadius steps from the new head
randomCells(snakePositions) ==
    LET h == snakePositions[1]
        dist(a, b) == IF a >= b THEN a - b ELSE b - a
    IN  {c \in {Coordinate(x, y) :
                   x \in Max(0, h.x - FoodRadius)..Min(columns - 1, h.x + FoodRadius),
                   y \in Max(0, h.y - FoodRadius)..Min(rows - 1, h.y + FoodRadius)} :
            dist(c.x, h.x) + dist(c.y, h.y) <= FoodRadius}

\* spawnFood leaving its loop with the first candidate
spawnFoodUnchecked(snakePositions) ==
    randomCells(snakePositions)

\* spawnFood checking the candidate against the body only, not the new head
spawnFoodBodyOnly(snakePositions) ==
    {c \in randomCells(snakePositions) : ~onSnake(c, Tail(snakePositions))}

\* the cells the while (true) loop of spawnFood can leave with
spawnFood(snakePositions) ==
    {c \in randomCells(snakePositions) : ~onSnake(c, snakePositions)}

\* checkCollision with the bottom wall one row early
checkCollisionEarlyWall(head, snakePositions) ==
    \/ head.x < 0
    \/ head.x >= columns
    \/ head.y < 0
    \/ head.y >= rows - 1
    \/ \E i \in 2..Len(snakePositions) : snakePositions[i] = head

\* checkCollision without its loop over the segments
checkCollisionWallsOnly(head, snakePositions) ==
    \/ head.x < 0
    \/ head.x >= columns
    \/ head.y < 0
    \/ head.y >= rows

checkCollision(head, snakePositions) ==
    \/ head.x < 0
    \/ head.x >= columns
    \/ head.y < 0
    \/ head.y >= rows
    \/ \E i \in 2..Len(snakePositions) : snakePositions[i] = head

(* ---- handleKeyDown's switch ---- *)

\* keyDirection with ArrowLeft guarded against the wrong direction
keyDirectionWrongGuard(key, d) ==
    CASE key = "ArrowUp" -> IF d # "DOWN" THEN "UP" ELSE d
      [] key = "ArrowDown" -> IF d # "UP" THEN "DOWN" ELSE d
      [] key = "ArrowLeft" -> IF d # "LEFT" THEN "LEFT" ELSE d
      [] key = "ArrowRight" -> IF d # "LEFT" THEN "RIGHT" ELSE d
      [] OTHER -> d

\* keyDirection without its ArrowUp case
keyDirectionNoUp(key, d) ==
    CASE key = "ArrowDown" -> IF d # "UP" THEN "DOWN" ELSE d
      [] key = "ArrowLeft" -> IF d # "RIGHT" THEN "LEFT" ELSE d
      [] key = "ArrowRight" -> IF d # "LEFT" THEN "RIGHT" ELSE d
      [] OTHER -> d

\* the direction after the switch (e.key) of handleKeyDown
keyDirection(key, d) ==
    CASE key = "ArrowUp" -> IF d # "DOWN" THEN "UP" ELSE d
      [] key = "ArrowDown" -> IF d # "UP" THEN "DOWN" ELSE d
      [] key = "ArrowLeft" -> IF d # "RIGHT" THEN "LEFT" ELSE d
      [] key = "ArrowRight" -> IF d # "LEFT" THEN "RIGHT" ELSE d
      [] OTHER -> d

\* the argument of the setDirection call the switch makes, "NONE" if it makes none
setDirectionArg(key, d) ==
    CASE key = "ArrowUp" /\ d # "DOWN" -> "UP"
      [] key = "ArrowDown" /\ d # "UP" -> "DOWN"
      [] key = "ArrowLeft" /\ d # "RIGHT" -> "LEFT"
      [] key = "ArrowRight" /\ d # "LEFT" -> "RIGHT"
      [] OTHER -> "NONE"

(* ---- the commit of a callback's updates and the notification effect ---- *)

\* the effect with one snapshot per setter, as without batching
notifyUnbatched(old, new, fresh) ==
    LET afterScore == [old EXCEPT !.score = new.score]
        afterFood == [afterScore EXCEPT !.food = new.food]
        afterOver == [afterFood EXCEPT !.gameOver = new.gameOver]
        steps == <<afterScore, afterFood, afterOver, new>>
    IN  IF fresh \/ old # new
           THEN SelectSeq(steps, LAMBDA st : st # old /\ st # new) \o <<new>>
           ELSE <<>>

\* the effect without direction among its dependencies
notifyNoDirection(old, new, fresh) ==
    IF \/ fresh
       \/ old.score # new.score
       \/ old.gameOver # new.gameOver
       THEN <<new>>
       ELSE <<>>

\* The updates of one callback are batched into one render (createRoot);
\* the effect on [snake, food, direction, score, gameOver] then runs once if
\* a dependency changed.  fresh: the callback passed a new array to
\* setSnake, which differs from the old one whatever it holds.
notify(old, new, fresh) ==
    IF \/ fresh
       \/ old.direction # new.direction
       \/ old.score # new.score
       \/ old.gameOver # new.gameOver
       THEN <<new>>
       ELSE <<>>

(* ---- state after construction ---- *)

\* the component as mounted
Mounted ==
    /\ snake = initialSnake
    /\ direction = "RIGHT"
    /\ food = initialFood
    /\ score = 0
    /\ gameOver = FALSE
    /\ lastMove = "NONE"
    /\ last = [op |-> "mount", key |-> "-", over |-> FALSE]
    /\ ticks = 0
    /\ turns = 0
    /\ accepted = "NONE"
    /\ delivered = <<GameState(initialSnake, initialFood, "RIGHT", 0, FALSE)>>
    /\ clock = [timer |-> 0, sinceTick |-> 0]

\* no run of spawnFood on its own
noLoop == [columns |-> columns, rows |-> rows, snakePositions |-> <<>>,
           pc |-> "idle", newFood |-> "none"]

Init ==
    /\ Mounted
    /\ loop = noLoop

(* ---- operations ---- *)

\* initGame without its setFood and setScore
initGameKeepFood ==
    /\ snake' = <<Coordinate(8, 10), Coordinate(7, 10), Coordinate(6, 10)>>
    /\ direction' = "RIGHT"
    /\ gameOver' = FALSE
    /\ lastMove' = "NONE"
    /\ ticks' = 0
    /\ turns' = 0
    /\ UNCHANGED <<food, score>>

initGame ==
    /\ snake' = <<Coordinate(8, 10), Coordinate(7, 10), Coordinate(6, 10)>>
    /\ direction' = "RIGHT"
    /\ food' = Coordinate(13, 10)
    /\ score' = 0
    /\ gameOver' = FALSE
    /\ lastMove' = "NONE"
    /\ ticks' = 0
    /\ turns' = 0

\* moveSnake past its first line
moveBody ==
    LET newHead == newHeadOf(snake[1], direction)
        newSnake == newSnakeOf(newHead, snake, food)
    IN  /\ ticks < MaxTicks
        /\ score' = newScoreOf(newHead, food, score)
        /\ IF newHead = food
              THEN food' \in spawnFood(newSnake)
              ELSE food' = food
        /\ gameOver' = (gameOver \/ checkCollision(newHead, newSnake))
        /\ snake' = newSnake
        /\ lastMove' = direction
        /\ ticks' = ticks + 1
        /\ UNCHANGED <<direction, turns>>

\* the state the callback started in, and the state it commits
committed == GameState(snake, food, direction, score, gameOver)
committing == GameState(snake', food', direction', score', gameOver')

\* moveSnake without its first line
moveSnakeNoGuard ==
    /\ moveBody
    /\ last' = [op |-> "tick", key |-> "-", over |-> gameOver]
    /\ accepted' = "NONE"
    /\ delivered' = notify(committed, committing, TRUE)

moveSnake ==
    /\ IF gameOver
          THEN UNCHANGED <<game, lastMove, ticks, turns>>
          ELSE moveBody
    /\ last' = [op |-> "tick", key |-> "-", over |-> gameOver]
    /\ accepted' = IF gameOver THEN accepted ELSE "NONE"
    /\ delivered' = notify(committed, committing, ~gameOver)

\* handleKeyDown calling initGame on Enter whatever gameOver is
handleKeyDownAlwaysRestarts(e) ==
    /\ IF e = "Enter"
          THEN initGame
          ELSE IF gameOver
                  THEN UNCHANGED <<game, lastMove, ticks, turns>>
                  ELSE /\ direction' = keyDirection(e, direction)
                       /\ turns' = IF direction' # direction THEN turns + 1 ELSE turns
                       /\ turns' <= MaxTurns
                       /\ UNCHANGED <<snake, food, score, gameOver, lastMove, ticks>>
    /\ last' = [op |-> "key", key |-> e, over |-> gameOver]
    /\ accepted' = IF e = "Enter" \/ gameOver THEN "NONE" ELSE accepted
    /\ delivered' = notify(committed, committing, e = "Enter")

handleKeyDown(e) ==
    /\ IF gameOver
          THEN IF e = "Enter"
                  THEN initGame
                  ELSE UNCHANGED <<game, lastMove, ticks, turns>>
          ELSE /\ direction' = keyDirection(e, direction)
               /\ turns' = IF direction' # direction THEN turns + 1 ELSE turns
               /\ turns' <= MaxTurns
               /\ UNCHANGED <<snake, food, score, gameOver, lastMove, ticks>>
    /\ last' = [op |-> "key", key |-> e, over |-> gameOver]
    /\ accepted' =
          IF gameOver
             THEN IF e = "Enter" THEN "NONE" ELSE accepted
             ELSE IF setDirectionArg(e, direction) # "NONE"
                     THEN setDirectionArg(e, direction)
                     ELSE accepted
    /\ delivered' = notify(committed, committing, gameOver /\ e = "Enter")

\* the callbacks in any order, time left aside
Next ==
    \/ moveSnake /\ UNCHANGED <<clock, loop>>
    \/ \E e \in Keys : handleKeyDown(e) /\ UNCHANGED <<clock, loop>>

Spec == Init /\ [][Next]_vars

(* ---- the callbacks on the clock ---- *)

\* moveSnake is re-created when one of [direction, food, gameOver, snake]
\* changes, and the effect on [moveSnake] then clears the interval and sets
\* a new one.  fresh: the callback passed a new array to setSnake.
rearms(old, new, fresh) ==
    \/ fresh
    \/ old.direction # new.direction
    \/ old.gameOver # new.gameOver

\* time passes, up to the moment the interval is due
Elapse ==
    /\ clock.timer < delay
    /\ clock.sinceTick < MaxWait
    /\ clock' = [timer |-> clock.timer + Quantum,
                 sinceTick |-> clock.sinceTick + Quantum]
    /\ UNCHANGED <<game, lastMove, last, ticks, turns, accepted, delivered, loop>>

\* the interval is due: its callback runs moveSnake; the interval goes on
\* or is set anew, due again after the delay either way
Fire ==
    /\ clock.timer = delay
    /\ ticks < MaxTimedTicks
    /\ moveSnake
    /\ clock' = [timer |-> 0, sinceTick |-> 0]
    /\ UNCHANGED loop

\* a key goes down at any moment
Press(e) ==
    /\ handleKeyDown(e)
    /\ clock' = [clock EXCEPT
                   !.timer = IF rearms(committed, committing, gameOver /\ e = "Enter")
                                THEN 0
                                ELSE @]
    /\ UNCHANGED loop

TimedNext ==
    \/ Elapse
    \/ Fire
    \/ \E e \in Keys : Press(e)

TimedSpec == Init /\ [][TimedNext]_vars


(* ---- spawnFood's loop, iteration by iteration ---- *)

\* the cells Math.floor(Math.random() * (width / gridSize)), ... can give
cellsOf(cols, rws) ==
    {Coordinate(x, y) : x \in 0..(cols - 1), y \in 0..(rws - 1)}

\* two cells side by side
adjacent(a, b) ==
    \/ a.x = b.x /\ (a.y = b.y + 1 \/ b.y = a.y + 1)
    \/ a.y = b.y /\ (a.x = b.x + 1 \/ b.x = a.x + 1)

\* the snakes of n segments on a grid: each segment next to the one before
\* it, no cell twice
RECURSIVE snakesOf(_, _, _)
snakesOf(cols, rws, n) ==
    IF n = 1
       THEN {<<c>> : c \in cellsOf(cols, rws)}
       ELSE {Append(p[1], p[2]) :
                p \in {q \in snakesOf(cols, rws, n - 1) \X cellsOf(cols, rws) :
                          /\ adjacent(q[1][n - 1], q[2])
                          /\ ~onSnake(q[2], q[1])}}

\* a call spawnFood(snakePositions) on a grid of cols x rws cells, entering
\* its loop
spawnCall(cols, rws, snakePositions) ==
    [columns |-> cols, rows |-> rws, snakePositions |-> snakePositions,
     pc |-> "draw", newFood |-> "none"]

SpawnInit ==
    /\ Mounted
    /\ \E cols \in 1..MaxSide, rws \in 1..MaxSide :
          \E n \in 1..(cols * rws) :
             \E sp \in snakesOf(cols, rws, n) :
                loop = spawnCall(cols, rws, sp)

\* newFood = { x: Math.floor(Math.random() * ...), y: ... } giving cell c
spawnDrawOf(c) ==
    /\ loop.pc = "draw"
    /\ loop' = [loop EXCEPT !.newFood = c, !.pc = "test"]
    /\ UNCHANGED <<game, lastMove, last, ticks, turns, accepted, delivered, clock>>

spawnDraw ==
    \E c \in cellsOf(loop.columns, loop.rows) : spawnDrawOf(c)

\* the draw gives a cell that is not on the snake
spawnDrawFree ==
    \E c \in cellsOf(loop.columns, loop.rows) :
       ~onSnake(c, loop.snakePositions) /\ spawnDrawOf(c)

\* the test of the loop with its condition inverted
spawnTestInverted ==
    /\ loop.pc = "test"
    /\ loop' = [loop EXCEPT
                  !.pc = IF onSnake(loop.newFood, loop.snakePositions)
                            THEN "done"
                            ELSE "draw"]
    /\ UNCHANGED <<game, lastMove, last, ticks, turns, accepted, delivered, clock>>

\* if (!snakePositions.some(...)) break; and then setFood(newFood)
spawnTest ==
    /\ loop.pc = "test"
    /\ loop' = [loop EXCEPT
                  !.pc = IF ~onSnake(loop.newFood, loop.snakePositions)
                            THEN "done"
                            ELSE "draw"]
    /\ UNCHANGED <<game, lastMove, last, ticks, turns, accepted, delivered, clock>>

SpawnNext ==
    \/ spawnDraw
    \/ spawnTest

\* the loop keeps running, and a random draw that can give a free cell
\* again and again does give one
SpawnSpec ==
    /\ SpawnInit
    /\ [][SpawnNext]_vars
    /\ WF_vars(spawnDraw)
    /\ WF_vars(spawnTest)
    /\ SF_vars(spawnDrawFree)

(* ---- vocabulary of the properties ---- *)

Opposite(d) ==
    CASE d = "UP" -> "DOWN"
      [] d = "DOWN" -> "UP"
      [] d = "LEFT" -> "RIGHT"
      [] d = "RIGHT" -> "LEFT"
      [] OTHER -> "NONE"

\* the cell one step from c in direction d
Ahead(c, d) ==
    [x |-> c.x + (IF d = "RIGHT" THEN 1 ELSE IF d = "LEFT" THEN -1 ELSE 0),
     y |-> c.y + (IF d = "DOWN" THEN 1 ELSE IF d = "UP" THEN -1 ELSE 0)]

InGrid(c) == c.x >= 0 /\ c.x < columns /\ c.y >= 0 /\ c.y < rows

Segments(s) == {s[i] : i \in 1..Len(s)}

\* the step is a tick() taken in a Playing state
PlayingTick == ~gameOver /\ last'.op = "tick"

\* the step is a keydown carrying key k
KeyStep(k) == last'.op = "key" /\ last'.key = k

ArrowDirection(k) ==
    CASE k = "ArrowUp" -> "UP"
      [] k = "ArrowDown" -> "DOWN"
      [] k = "ArrowLeft" -> "LEFT"
      [] k = "ArrowRight" -> "RIGHT"

ArrowKeys == {"ArrowUp", "ArrowDown", "ArrowLeft", "ArrowRight"}

(* ---- C1 ---- *)

\* C1 (wall termination): a tick() in a Playing state whose new head is
\* outside the grid sets gameOver and leaves snake, food and score as they
\* were before the tick.
C1_WallTermination ==
    [][(PlayingTick /\ ~InGrid(Ahead(snake[1], direction)))
          => (gameOver' /\ snake' = snake /\ food' = food /\ score' = score)]_vars

(* ---- C2 ---- *)

\* C2 as stated (self termination): a tick() in a Playing state whose new
\* head equals any segment of the snake as it was before the tick, the tail
\* cell this tick vacates included, sets gameOver.
C2_SelfTerminationStrict ==
    [][(PlayingTick /\ Ahead(snake[1], direction) \in Segments(snake))
          => gameOver']_vars

\* the segments of the pre-tick snake that are still part of it after the
\* tick: all of them when the new head is on the food, all but the last
\* one otherwise
Remaining ==
    IF Ahead(snake[1], direction) = food
       THEN Segments(snake)
       ELSE {snake[i] : i \in 1..(Len(snake) - 1)}

\* C2 amended (self termination): a tick() in a Playing state whose new
\* head equals a segment of the pre-tick snake that remains in the snake
\* after the tick sets gameOver.
C2_SelfTermination ==
    [][(PlayingTick /\ Ahead(snake[1], direction) \in Remaining)
          => gameOver']_vars

\* a tick has run the head into a segment behind the neck that stayed in
\* place
C2_Witness ==
    /\ gameOver
    /\ last.op = "tick"
    /\ ~last.over
    /\ InGrid(snake[1])
    /\ \E i \in 4..Len(snake) : snake[i] = snake[1]

(* ---- C3 ---- *)

\* C3 (no reversal): whatever setDirection() calls come between two ticks,
\* a tick() in a Playing state never moves in the exact opposite of the
\* direction the tick before it moved in.
C3_NoReversal ==
    [][(PlayingTick /\ lastMove # "NONE") => direction # Opposite(lastMove)]_vars

(* ---- C4 ---- *)

\* C4 (movement): after a tick() in a Playing state that does not collide,
\* the head is the old head one cell further in the current direction; off
\* the food the snake is the new head followed by the old snake without
\* its last segment (same length), on the food it is the new head followed
\* by the whole old snake (one longer).
C4_Movement ==
    [][(PlayingTick /\ ~gameOver')
          => LET h == snake[1]
                 n == snake'[1]
             IN  /\ direction = "UP" => n = [x |-> h.x, y |-> h.y - 1]
                 /\ direction = "DOWN" => n = [x |-> h.x, y |-> h.y + 1]
                 /\ direction = "LEFT" => n = [x |-> h.x - 1, y |-> h.y]
                 /\ direction = "RIGHT" => n = [x |-> h.x + 1, y |-> h.y]
                 /\ n # food => /\ snake' = <<n>> \o SubSeq(snake, 1, Len(snake) - 1)
                                /\ Len(snake') = Len(snake)
                 /\ n = food => /\ snake' = <<n>> \o snake
                                /\ Len(snake') = Len(snake) + 1]_vars

\* the snake has grown by one food and has moved on, upwards, since
C4_Witness ==
    /\ ~gameOver
    /\ last.op = "tick"
    /\ lastMove = "UP"
    /\ Len(snake) = 4
    /\ snake[2] = [x |-> snake[1].x, y |-> snake[1].y + 1]

(* ---- C5 ---- *)

\* C5 (idempotent terminal state): a tick() in a state with gameOver set
\* changes none of snake, food, direction, score, gameOver.
C5_TerminalTick ==
    [][(gameOver /\ last'.op = "tick") => UNCHANGED game]_vars

\* a tick() has been called with gameOver set
C5_Witness ==
    gameOver /\ last.op = "tick" /\ last.over

(* ---- C6 ---- *)

\* C6 (food invariant): after a tick() that respawns the food, the new food
\* is on no segment of the snake that tick commits, the new head included.
C6_FoodOffSnake ==
    [][(PlayingTick /\ Ahead(snake[1], direction) = food)
          => (\A i \in 1..Len(snake') : snake'[i] # food')]_vars

\* the fifth move after the start has taken the head onto the first food,
\* and a new food has been placed
C6_Witness ==
    /\ last.op = "tick"
    /\ ticks = 5
    /\ score = 1
    /\ snake[1] = initialFood
    /\ food # initialFood

(* ---- C7 ---- *)

\* C7 (score monotonicity): a tick() changes score by 0 or +1, by +1 exactly
\* when it is taken in a Playing state and its new head is on the pre-tick
\* food; score decreases by init() only.
C7_Score ==
    [][/\ PlayingTick => (score' = score + 1
                            <=> Ahead(snake[1], direction) = food)
       /\ last'.op = "tick" => score' \in {score, score + 1}
       /\ score' < score => (gameOver /\ KeyStep("Enter") /\ score' = 0)]_vars

\* two foods have been eaten
C7_Witness ==
    score = 2 /\ last.op = "tick"

(* ---- C8 ---- *)

\* C8 (setDirection): a directional key never changes snake, food, score or
\* gameOver; it leaves direction alone when it asks for the opposite of the
\* current direction or when gameOver is set, and makes it the direction
\* asked for otherwise.
C8_SetDirection ==
    [][\A k \in ArrowKeys :
          KeyStep(k)
             => /\ UNCHANGED <<snake, food, score, gameOver>>
                /\ direction' =
                      IF gameOver \/ ArrowDirection(k) = Opposite(direction)
                         THEN direction
                         ELSE ArrowDirection(k)]_vars

\* a tick has moved in a direction that a key press set
C8_Witness ==
    /\ ~gameOver
    /\ last.op = "tick"
    /\ turns = 1
    /\ direction = "UP"
    /\ lastMove = "UP"

(* ---- C9 ---- *)

\* C9 (init): construction and every init() leave the same state: snake
\* [(8,10),(7,10),(6,10)], direction RIGHT, food (13,10), score 0, gameOver
\* false.
C9_Init ==
    (last.op = "mount" \/ (last.op = "key" /\ last.key = "Enter" /\ last.over))
       => /\ snake = <<[x |-> 8, y |-> 10], [x |-> 7, y |-> 10], [x |-> 6, y |-> 10]>>
          /\ direction = "RIGHT"
          /\ food = [x |-> 13, y |-> 10]
          /\ score = 0
          /\ gameOver = FALSE

\* init() has just restarted a game that was over
C9_Witness ==
    last.op = "key" /\ last.key = "Enter" /\ last.over /\ ~gameOver

(* ---- C10 ---- *)

\* C10 (state machine): gameOver becomes true only by a tick() whose new
\* head is outside the grid or on the snake, and becomes false only by
\* init(); no tick() and no directional key clears it.
C10_StateMachine ==
    [][/\ (~gameOver /\ gameOver')
          => /\ last'.op = "tick"
             /\ \/ ~InGrid(Ahead(snake[1], direction))
                \/ Ahead(snake[1], direction) \in Segments(snake)
       /\ (gameOver /\ ~gameOver') => KeyStep("Enter")
       /\ (gameOver /\ (last'.op = "tick" \/ last'.key \in ArrowKeys))
          => gameOver']_vars

\* a tick has run the snake into a wall
C10_Witness ==
    gameOver /\ ~InGrid(snake[1]) /\ last.op = "tick" /\ ~last.over

(* ---- C11 ---- *)

\* C11 (snake invariant): the snake always has at least one segment, and
\* while gameOver is false no two of its segments are equal.
C11_SnakeInvariant ==
    /\ Len(snake) >= 1
    /\ ~gameOver => \A i, j \in 1..Len(snake) : i # j => snake[i] # snake[j]

\* a game still running with a snake of five segments that has turned
C11_Witness ==
    /\ ~gameOver
    /\ Len(snake) = 5
    /\ snake[1].x # snake[5].x
    /\ snake[1].y # snake[5].y

(* ---- C12 ---- *)

\* C12 (coordinate range): in every state, Playing or GameOver, every snake
\* segment and the food are inside the grid.
C12_InRange ==
    /\ \A i \in 1..Len(snake) : InGrid(snake[i])
    /\ InGrid(food)

(* ---- C19 ---- *)

\* C19: in every state score is the length of the snake minus 3.
C19_ScoreIsGrowth ==
    score = Len(snake) - 3

\* a game that ended after one food was eaten
C19_Witness ==
    gameOver /\ score = 1 /\ Len(snake) = 4

(* ---- C20 ---- *)

\* C20: in every state the food is on no segment of the snake, and so no
\* tick() both eats the food and ends the game.
C20_FoodNeverOnSnake ==
    /\ [](\A i \in 1..Len(snake) : snake[i] # food)
    /\ [][(PlayingTick /\ Ahead(snake[1], direction) = food) => ~gameOver']_vars

\* the game has gone on for two moves after a food was eaten and respawned
C20_Witness ==
    /\ ~gameOver
    /\ score = 1
    /\ food # initialFood
    /\ ticks >= 7
    /\ \A i \in 1..Len(snake) : snake[i] # food

(* ---- C13 ---- *)

\* the direction the latest move went in, RIGHT after a (re)start
PreviousDirection == IF lastMove = "NONE" THEN "RIGHT" ELSE lastMove

\* C13 (last writer wins): a tick() in a Playing state moves the head one
\* cell in the argument of the latest setDirection() call accepted since the
\* tick before it, or in that tick's direction when none was accepted.
C13_LastWriterWins ==
    [][PlayingTick
          => snake'[1] = Ahead(snake[1], IF accepted # "NONE"
                                            THEN accepted
                                            ELSE PreviousDirection)]_vars

\* the first tick has moved RIGHT after two accepted calls, UP then RIGHT
C13_Witness ==
    /\ last.op = "tick"
    /\ ticks = 1
    /\ turns = 2
    /\ lastMove = "RIGHT"
    /\ ~gameOver

(* ---- C15 ---- *)

\* C15 (observer notification): a tick(), an init() or a setDirection()
\* that changes the state makes onGameStateUpdate run exactly once, with
\* the state the callback committed.
C15_Notified ==
    [][game' # game
          => /\ Len(delivered') = 1
             /\ delivered'[1].snake = snake'
             /\ delivered'[1].food = food'
             /\ delivered'[1].direction = direction'
             /\ delivered'[1].score = score'
             /\ delivered'[1].gameOver = gameOver']_vars

\* an accepted key has changed the direction and the observer has seen it
C15_Witness ==
    /\ last.op = "key"
    /\ ~last.over
    /\ Len(delivered) = 1
    /\ delivered[1].direction = "DOWN"
    /\ direction = "DOWN"
    /\ lastMove # "DOWN"

(* ---- C16 ---- *)

\* C16 (atomic commit): every state a tick() makes the observer see holds
\* all of that tick's updates: its snake, food, score and gameOver are the
\* ones the tick commits.
C16_AtomicCommit ==
    [][last'.op = "tick"
          => \A i \in 1..Len(delivered') :
                /\ delivered'[i].snake = snake'
                /\ delivered'[i].food = food'
                /\ delivered'[i].score = score'
                /\ delivered'[i].gameOver = gameOver']_vars

\* the observer has seen the tick that ate the first food: score, the
\* grown snake and the new food together
C16_Witness ==
    /\ last.op = "tick"
    /\ Len(delivered) = 1
    /\ delivered[1].score = 1
    /\ Len(delivered[1].snake) = 4
    /\ delivered[1].snake[1] = initialFood
    /\ delivered[1].food # initialFood

(* ---- C18 ---- *)

\* C18 (ignored input): while Playing a key that is no arrow, Enter
\* included, changes nothing of the game state; while gameOver is set a key
\* other than Enter changes nothing of it.
C18_IgnoredInput ==
    [][\A k \in Keys :
          /\ (KeyStep(k) /\ ~gameOver /\ k \notin ArrowKeys) => UNCHANGED game
          /\ (KeyStep(k) /\ gameOver /\ k # "Enter") => UNCHANGED game]_vars

\* Enter has been pressed in a running game that had already moved
C18_Witness ==
    /\ last.op = "key"
    /\ last.key = "Enter"
    /\ ~last.over
    /\ ticks >= 1
    /\ snake # initialSnake

(* ---- C14 ---- *)

\* some cell of the grid is not on the snake passed to spawnFood
SomeCellFree ==
    \E c \in cellsOf(loop.columns, loop.rows) : ~onSnake(c, loop.snakePositions)

\* C14 (respawn termination): with a cell of the grid off the snake the
\* loop of spawnFood ends, under fair random draws; with the snake on every
\* cell it never ends, so setFood is never reached.
C14_RespawnTermination ==
    /\ SomeCellFree ~> (loop.pc = "done")
    /\ [](~SomeCellFree => loop.pc # "done")

\* the loop has ended on the one cell a four-cell grid had free
C14_Witness ==
    /\ loop.pc = "done"
    /\ Len(loop.snakePositions) = 3
    /\ loop.columns * loop.rows = 4
    /\ ~onSnake(loop.newFood, loop.snakePositions)

(* ---- C17 ---- *)

\* the step is a run of the interval's callback that is not the first one
LaterTick ==
    /\ last'.op = "tick"
    /\ clock'.sinceTick = 0
    /\ clock.sinceTick # 0
    /\ ticks >= 1

\* C17 (fixed cadence): a tick() comes exactly 200 time units after the
\* tick() before it, whatever setDirection() calls were accepted in between.
C17_FixedCadence ==
    [][LaterTick => clock.sinceTick = delay]_vars

=============================================================================
